---- MODULE Spec2Model ----
(***************************************************************************)
(* The note-event timing analyses of the MIDI rhythm notebook:             *)
(* analyze_note_density, find_rhythm_patterns, analyze_syncopation and     *)
(* analyze_groove.                                                         *)
(*                                                                         *)
(* Times are Python floats in the source.  Here a time is an integer       *)
(* number of ticks, a tick being 1/OneBeat of the unit 1.0; every value    *)
(* the model feeds the analyses is therefore a dyadic rational, on which   *)
(* the float operations of the source (-, /, *, %, round, comparisons) are *)
(* exact.  A score is kept as its numerator over ScoreDen.                 *)
(***************************************************************************)
EXTENDS Integers, Sequences, FiniteSets, TLC

VARIABLES
    notes,                  \* note_events, the argument shared by the calls
    window_size,            \* analyze_note_density's window_size (ticks)
    pattern_quantization,   \* find_rhythm_patterns' quantization (ticks)
    beats_per_bar,          \* analyze_syncopation's beats_per_bar (ticks)
    groove_quantization,    \* analyze_groove's quantization (ticks)
    dpc, time_points, densities, d_outcome,
    ppc, p_i, current_pattern, patterns, p_outcome,
    spc, s_i, syncopation_scores, s_outcome,
    gpc, g_i, groove_deviations, g_outcome

inputVars == <<notes, window_size, pattern_quantization, beats_per_bar,
               groove_quantization>>
densityVars == <<dpc, time_points, densities, d_outcome>>
patternVars == <<ppc, p_i, current_pattern, patterns, p_outcome>>
syncopationVars == <<spc, s_i, syncopation_scores, s_outcome>>
grooveVars == <<gpc, g_i, groove_deviations, g_outcome>>
vars == <<inputVars, densityVars, patternVars, syncopationVars, grooveVars>>

(***************************************************************************)
(* Bounds of the model and constants of the program.                       *)
(***************************************************************************)
MaxDensityNotes == 2
MaxEnd == 4
MaxPatternNotes == 6
MaxSyncNotes == 2
MaxGrooveNotes == 2
MaxStart == 7
MaxConcNotes == 5

\* the 1.0 of "position_in_bar % 1.0", in ticks
OneBeat == 16
\* the 127.0 of "note['velocity'] / 127.0"
VelocityScale == 127
\* "if len(current_pattern) == 4"
PatternLen == 4

ScoreDen == VelocityScale * OneBeat

(***************************************************************************)
(* Python and numpy arithmetic.                                            *)
(***************************************************************************)
Abs(x) == IF x < 0 THEN -x ELSE x

\* floor(n / d) for d # 0
FloorDiv(n, d) == IF d > 0 THEN n \div d ELSE (-n) \div (-d)

\* ceil(n / d) for d # 0
CeilDiv(n, d) == -FloorDiv(-n, d)

\* Python's a % b for b # 0: the result has the sign of b
PyMod(a, b) == IF b > 0 THEN a % b ELSE -((-a) % (-b))

\* The rounding of a tie n/d = k + 1/2 to the neighbour that is not even.
RoundHalfOdd(n, d) ==
    LET fl == FloorDiv(n, d)
        r == n - fl * d
    IN  IF 2 * Abs(r) < Abs(d) THEN fl
        ELSE IF 2 * Abs(r) > Abs(d) THEN fl + 1
        ELSE IF fl % 2 = 0 THEN fl + 1 ELSE fl

\* int(n / d) in place of round(n / d): truncation toward zero.
RoundTrunc(n, d) ==
    LET fl == FloorDiv(n, d)
    IN  IF fl < 0 /\ fl * d # n THEN fl + 1 ELSE fl

\* Python's round(n / d) for d # 0: to the nearest integer, a tie to the even one.
PyRound(n, d) ==
    LET fl == FloorDiv(n, d)
        r == n - fl * d
    IN  IF 2 * Abs(r) < Abs(d) THEN fl
        ELSE IF 2 * Abs(r) > Abs(d) THEN fl + 1
        ELSE IF fl % 2 = 0 THEN fl ELSE fl + 1

\* what numpy raises for np.arange(0, stop, 0); the type depends on its version
ArangeErrors == {"ZeroDivisionError", "ValueError"}

\* np.arange(0, stop, step) for step # 0: 0, step, 2*step, ... of length
\* max(0, ceil(stop / step))
Arange(stop, step) ==
    LET len == IF CeilDiv(stop, step) > 0 THEN CeilDiv(stop, step) ELSE 0
    IN  [k \in 1..len |-> (k - 1) * step]

(***************************************************************************)
(* analyze_note_density                                                    *)
(***************************************************************************)
\* max(event['end'] for event in note_events), note_events not empty
MaxTime(ns) ==
    CHOOSE m \in {ns[i].end : i \in 1..Len(ns)} :
        \A i \in 1..Len(ns) : ns[i].end <= m

\* the sampling test with the note's end excluded
ActiveHalfOpen(note, t) == note.start <= t /\ t < note.end

\* note['start'] <= t <= note['end']
Active(note, t) == note.start <= t /\ t <= note.end

\* sum(1 for note in note_events if note['start'] <= t <= note['end'])
NotesInWindow(ns, t) == Cardinality({i \in 1..Len(ns) : Active(ns[i], t)})

\* the entry of the function with the emptiness test left out: max() of an
\* empty sequence raises
DensityEntryNoGuard(ns, w) ==
    IF ns = <<>> THEN {[outcome |-> "ValueError", times |-> <<>>]}
    ELSE IF w = 0 THEN {[outcome |-> e, times |-> <<>>] : e \in ArangeErrors}
    ELSE {[outcome |-> "running", times |-> Arange(MaxTime(ns), w)]}

\* the function up to its loop: the early return, max_time, time_points
DensityEntry(ns, w) ==
    IF ns = <<>> THEN {[outcome |-> "ok", times |-> <<>>]}
    ELSE IF w = 0 THEN {[outcome |-> e, times |-> <<>>] : e \in ArangeErrors}
    ELSE {[outcome |-> "running", times |-> Arange(MaxTime(ns), w)]}

DensityStart ==
    /\ dpc = "start"
    /\ \E r \in DensityEntry(notes, window_size) :
          /\ time_points' = r.times
          /\ d_outcome' = r.outcome
          /\ dpc' = IF r.outcome = "running" THEN "loop" ELSE "done"
    /\ densities' = <<>>
    /\ UNCHANGED <<inputVars, patternVars, syncopationVars, grooveVars>>

DensityLoop ==
    /\ dpc = "loop"
    /\ Len(densities) < Len(time_points)
    /\ densities' = Append(densities,
                           NotesInWindow(notes, time_points[Len(densities) + 1]))
    /\ UNCHANGED <<dpc, time_points, d_outcome>>
    /\ UNCHANGED <<inputVars, patternVars, syncopationVars, grooveVars>>

DensityReturn ==
    /\ dpc = "loop"
    /\ Len(densities) = Len(time_points)
    /\ dpc' = "done"
    /\ d_outcome' = "ok"
    /\ UNCHANGED <<time_points, densities>>
    /\ UNCHANGED <<inputVars, patternVars, syncopationVars, grooveVars>>

NextDensity == DensityStart \/ DensityLoop \/ DensityReturn

(***************************************************************************)
(* find_rhythm_patterns                                                    *)
(***************************************************************************)
\* round((cur - prev) / quantization) * quantization, quantization # 0
QuantizeIOI(cur, prev, q) == PyRound(cur - prev, q) * q

\* the buffer emptied after a pattern is recorded (patterns that do not overlap)
ClearBuffer(buf) == <<>>

\* the newest element dropped in place of the oldest
DropNewest(buf) == SubSeq(buf, 1, Len(buf) - 1)

\* current_pattern[1:]
DropOldest(buf) == Tail(buf)

\* patterns[pattern_tuple] += 1 on a defaultdict(int)
Increment(hist, key) ==
    [k \in DOMAIN hist \cup {key} |->
        IF k = key THEN (IF key \in DOMAIN hist THEN hist[key] + 1 ELSE 1)
        ELSE hist[k]]

\* defaultdict(int) with no key
EmptyHist == [k \in {} |-> 0]

PatternsStart ==
    /\ ppc = "start"
    /\ patterns' = EmptyHist
    /\ current_pattern' = <<>>
    /\ p_i' = 2
    /\ ppc' = "loop"
    /\ UNCHANGED p_outcome
    /\ UNCHANGED <<inputVars, densityVars, syncopationVars, grooveVars>>

\* the first half of an iteration: ioi = ...; current_pattern.append(ioi)
PatternsAppend ==
    /\ ppc = "loop"
    /\ p_i <= Len(notes)
    /\ IF pattern_quantization = 0
         THEN /\ p_outcome' = "ZeroDivisionError"
              /\ ppc' = "done"
              /\ UNCHANGED current_pattern
         ELSE /\ current_pattern' =
                    Append(current_pattern,
                           QuantizeIOI(notes[p_i].start, notes[p_i - 1].start,
                                       pattern_quantization))
              /\ ppc' = "appended"
              /\ UNCHANGED p_outcome
    /\ UNCHANGED <<p_i, patterns>>
    /\ UNCHANGED <<inputVars, densityVars, syncopationVars, grooveVars>>

\* the second half: if len(current_pattern) == 4: record it, drop the oldest
PatternsRecord ==
    /\ ppc = "appended"
    /\ IF Len(current_pattern) = PatternLen
         THEN /\ patterns' = Increment(patterns, current_pattern)
              /\ current_pattern' = DropOldest(current_pattern)
         ELSE UNCHANGED <<patterns, current_pattern>>
    /\ p_i' = p_i + 1
    /\ ppc' = "loop"
    /\ UNCHANGED p_outcome
    /\ UNCHANGED <<inputVars, densityVars, syncopationVars, grooveVars>>

PatternsReturn ==
    /\ ppc = "loop"
    /\ p_i > Len(notes)
    /\ ppc' = "done"
    /\ p_outcome' = "ok"
    /\ UNCHANGED <<p_i, current_pattern, patterns>>
    /\ UNCHANGED <<inputVars, densityVars, syncopationVars, grooveVars>>

NextPatterns == PatternsStart \/ PatternsAppend \/ PatternsRecord \/ PatternsReturn

(***************************************************************************)
(* analyze_syncopation                                                     *)
(***************************************************************************)
\* position_in_bar % 1.0, with position_in_bar = note['start'] % beats_per_bar
Fractional(start, bpb) == PyMod(PyMod(start, bpb), OneBeat)

\* "within 0.1 of a beat" taken on both sides of the beat
NearBeatEitherSide(frac) == 10 * frac < OneBeat \/ 10 * frac > 9 * OneBeat

\* position_in_bar % 1.0 < 0.1
IsStrongBeat(frac) == 10 * frac < OneBeat

\* velocity_factor > 0.5, with velocity_factor = note['velocity'] / 127.0
IsLoud(velocity) == 2 * velocity > VelocityScale

\* the score growing with the distance past the beat
ScoreRising(velocity, frac) == velocity * frac

\* velocity_factor * (1 - (position_in_bar % 1.0)), as a numerator over ScoreDen
Score(velocity, frac) == velocity * (OneBeat - frac)

SyncopationStart ==
    /\ spc = "start"
    /\ syncopation_scores' = <<>>
    /\ s_i' = 1
    /\ spc' = "loop"
    /\ UNCHANGED s_outcome
    /\ UNCHANGED <<inputVars, densityVars, patternVars, grooveVars>>

\* the loop, appending to a list the groove analysis uses too
SyncopationLoopSharedList ==
    /\ spc = "loop"
    /\ s_i <= Len(notes)
    /\ beats_per_bar # 0
    /\ LET note == notes[s_i]
           frac == Fractional(note.start, beats_per_bar)
           rec == [time |-> note.start, score |-> Score(note.velocity, frac)]
       IN  IF ~IsStrongBeat(frac) /\ IsLoud(note.velocity)
             THEN /\ syncopation_scores' = Append(syncopation_scores, rec)
                  /\ groove_deviations' = Append(groove_deviations, rec)
             ELSE UNCHANGED <<syncopation_scores, groove_deviations>>
    /\ s_i' = s_i + 1
    /\ UNCHANGED <<spc, s_outcome, gpc, g_i, g_outcome>>
    /\ UNCHANGED <<inputVars, densityVars, patternVars>>

\* one iteration of "for note in note_events"
SyncopationLoop ==
    /\ spc = "loop"
    /\ s_i <= Len(notes)
    /\ IF beats_per_bar = 0
         THEN /\ s_outcome' = "ZeroDivisionError"
              /\ spc' = "done"
              /\ UNCHANGED <<s_i, syncopation_scores>>
         ELSE LET note == notes[s_i]
                  frac == Fractional(note.start, beats_per_bar)
              IN  /\ syncopation_scores' =
                        IF ~IsStrongBeat(frac) /\ IsLoud(note.velocity)
                          THEN Append(syncopation_scores,
                                      [time |-> note.start,
                                       score |-> Score(note.velocity, frac)])
                          ELSE syncopation_scores
                  /\ s_i' = s_i + 1
                  /\ UNCHANGED <<spc, s_outcome>>
    /\ UNCHANGED <<inputVars, densityVars, patternVars, grooveVars>>

SyncopationReturn ==
    /\ spc = "loop"
    /\ s_i > Len(notes)
    /\ spc' = "done"
    /\ s_outcome' = "ok"
    /\ UNCHANGED <<s_i, syncopation_scores>>
    /\ UNCHANGED <<inputVars, densityVars, patternVars, grooveVars>>

NextSyncopation == SyncopationStart \/ SyncopationLoop \/ SyncopationReturn

(***************************************************************************)
(* analyze_groove                                                          *)
(***************************************************************************)
\* round(note['start'] / quantization) * quantization, quantization # 0
QuantizedStart(start, q) == PyRound(start, q) * q

\* the grid position taken by truncation
DeviationTrunc(start, q) == start - RoundTrunc(start, q) * q

\* the grid position with a tie rounded to the odd neighbour
DeviationHalfOdd(start, q) == start - RoundHalfOdd(start, q) * q

\* note['start'] - quantized_start
Deviation(start, q) == start - QuantizedStart(start, q)

GrooveStart ==
    /\ gpc = "start"
    /\ groove_deviations' = <<>>
    /\ g_i' = 1
    /\ gpc' = "loop"
    /\ UNCHANGED g_outcome
    /\ UNCHANGED <<inputVars, densityVars, patternVars, syncopationVars>>

\* one iteration of "for note in note_events"
GrooveLoop ==
    /\ gpc = "loop"
    /\ g_i <= Len(notes)
    /\ IF groove_quantization = 0
         THEN /\ g_outcome' = "ZeroDivisionError"
              /\ gpc' = "done"
              /\ UNCHANGED <<g_i, groove_deviations>>
         ELSE /\ groove_deviations' =
                    Append(groove_deviations,
                           [time |-> notes[g_i].start,
                            deviation |-> Deviation(notes[g_i].start,
                                                    groove_quantization)])
              /\ g_i' = g_i + 1
              /\ UNCHANGED <<gpc, g_outcome>>
    /\ UNCHANGED <<inputVars, densityVars, patternVars, syncopationVars>>

GrooveReturn ==
    /\ gpc = "loop"
    /\ g_i > Len(notes)
    /\ gpc' = "done"
    /\ g_outcome' = "ok"
    /\ UNCHANGED <<g_i, groove_deviations>>
    /\ UNCHANGED <<inputVars, densityVars, patternVars, syncopationVars>>

NextGroove == GrooveStart \/ GrooveLoop \/ GrooveReturn

(***************************************************************************)
(* The inputs: note lists as extract_note_events returns them, sorted      *)
(* ascending by start, with start <= end and velocity in 0..127.           *)
(***************************************************************************)
MkNote(s, e, v) == [start |-> s, end |-> e, velocity |-> v]

SeqsUpTo(S, n) == UNION {[1..k -> S] : k \in 0..n}

SortedByStart(ns) == \A i \in 1..(Len(ns) - 1) : ns[i].start <= ns[i + 1].start

RECURSIVE SumTo(_, _)
SumTo(s, k) == IF k = 0 THEN 0 ELSE s[k] + SumTo(s, k - 1)

\* the notes whose consecutive starts are iois apart, the first at 0
NotesFromIOIs(iois, len, vel) ==
    [k \in 1..(Len(iois) + 1) |->
        MkNote(SumTo(iois, k - 1), SumTo(iois, k - 1) + len, vel[k])]

DensityNotes ==
    {ns \in SeqsUpTo({MkNote(s, e, 64) : s \in 0..MaxEnd, e \in 0..MaxEnd}, MaxDensityNotes) :
        SortedByStart(ns) /\ \A i \in 1..Len(ns) : ns[i].start <= ns[i].end}

PatternNotes ==
    {<<>>} \cup {NotesFromIOIs(iois, 1, [k \in 1..MaxPatternNotes + 1 |-> 64]) :
                    iois \in SeqsUpTo({0, 1, 2, 3}, MaxPatternNotes - 1)}

SyncStarts == {0, 1, 2, 15, 24, 39}

SyncNotes ==
    {ns \in SeqsUpTo({MkNote(s, s + 4, v) : s \in SyncStarts, v \in {0, 63, 64, 127}},
                     MaxSyncNotes) : SortedByStart(ns)}

GrooveNotes ==
    {ns \in SeqsUpTo({MkNote(s, s + 1, 64) : s \in 0..MaxStart}, MaxGrooveNotes) :
        SortedByStart(ns)}

\* velocities of the notes of the concurrent runs, by position
ConcVelocity == [k \in 1..(MaxConcNotes + 1) |-> IF k % 2 = 0 THEN 100 ELSE 50]

ConcNotes ==
    {<<>>} \cup {NotesFromIOIs(iois, 2, ConcVelocity) :
                    iois \in SeqsUpTo({1, 3}, MaxConcNotes - 1)}

Locals ==
    /\ time_points = <<>> /\ densities = <<>> /\ d_outcome = "none"
    /\ p_i = 0 /\ current_pattern = <<>> /\ patterns = EmptyHist /\ p_outcome = "none"
    /\ s_i = 0 /\ syncopation_scores = <<>> /\ s_outcome = "none"
    /\ g_i = 0 /\ groove_deviations = <<>> /\ g_outcome = "none"

Setup(N, W, PQ, B, GQ) ==
    /\ notes \in N
    /\ window_size \in W
    /\ pattern_quantization \in PQ
    /\ beats_per_bar \in B
    /\ groove_quantization \in GQ
    /\ Locals

Calls(d, p, s, g) == dpc = d /\ ppc = p /\ spc = s /\ gpc = g

(***************************************************************************)
(* One analysis called alone.                                              *)
(***************************************************************************)
InitDensity ==
    /\ Setup(DensityNotes, {-1, 0, 1, 2}, {4}, {64}, {2})
    /\ Calls("start", "idle", "idle", "idle")

SpecDensity == InitDensity /\ [][NextDensity]_vars

InitPatterns ==
    /\ Setup(PatternNotes, {16}, {-2, 0, 2, 3}, {64}, {2})
    /\ Calls("idle", "start", "idle", "idle")

SpecPatterns == InitPatterns /\ [][NextPatterns]_vars

InitSyncopation ==
    /\ Setup(SyncNotes, {16}, {4}, {0, 16, 24, 64}, {2})
    /\ Calls("idle", "idle", "start", "idle")

SpecSyncopation == InitSyncopation /\ [][NextSyncopation]_vars

InitGroove ==
    /\ Setup(GrooveNotes, {16}, {4}, {64}, {-2, 0, 1, 2, 3, 4})
    /\ Calls("idle", "idle", "idle", "start")

SpecGroove == InitGroove /\ [][NextGroove]_vars

(***************************************************************************)
(* A caller making the four calls one after the other, in any order, with  *)
(* valid and degenerate parameters.                                        *)
(***************************************************************************)
Quiet(pcs) == \A pc \in pcs : pc \in {"start", "done"}

InitCalls ==
    /\ Setup(ConcNotes, {-4, 0, 4, 8}, {-2, 0, 2, 3}, {16, 64}, {-2, 0, 2, 3})
    /\ Calls("start", "start", "start", "start")

NextCalls ==
    \/ Quiet({ppc, spc, gpc}) /\ NextDensity
    \/ Quiet({dpc, spc, gpc}) /\ NextPatterns
    \/ Quiet({dpc, ppc, gpc}) /\ NextSyncopation
    \/ Quiet({dpc, ppc, spc}) /\ NextGroove

SpecCalls == InitCalls /\ [][NextCalls]_vars

(***************************************************************************)
(* The four analyses as concurrent processes over the same note list, a    *)
(* step being one loop iteration (one half of it in find_rhythm_patterns). *)
(***************************************************************************)
Init ==
    /\ Setup(ConcNotes, {4}, {2}, {16}, {2})
    /\ Calls("start", "start", "start", "start")

Next == NextDensity \/ NextPatterns \/ NextSyncopation \/ NextGroove

Spec == Init /\ [][Next]_vars

(***************************************************************************)
(* Each analysis run alone, from its first line to its return.             *)
(***************************************************************************)
\* analyze_note_density(ns, w) for w # 0 or ns empty: (time_points, densities)
DensityAlone(ns, w) ==
    LET tp == IF ns = <<>> THEN <<>> ELSE Arange(MaxTime(ns), w)
    IN  <<tp, [k \in 1..Len(tp) |-> NotesInWindow(ns, tp[k])]>>

RECURSIVE PatternsScan(_, _, _, _, _)
PatternsScan(ns, q, i, buf, hist) ==
    IF i > Len(ns) THEN hist
    ELSE LET b == Append(buf, QuantizeIOI(ns[i].start, ns[i - 1].start, q))
         IN  IF Len(b) = PatternLen
               THEN PatternsScan(ns, q, i + 1, DropOldest(b), Increment(hist, b))
               ELSE PatternsScan(ns, q, i + 1, b, hist)

\* find_rhythm_patterns(ns, q) for q # 0
PatternsAlone(ns, q) == PatternsScan(ns, q, 2, <<>>, EmptyHist)

RECURSIVE SyncopationScan(_, _, _, _)
SyncopationScan(ns, bpb, i, out) ==
    IF i > Len(ns) THEN out
    ELSE LET frac == Fractional(ns[i].start, bpb)
         IN  SyncopationScan(ns, bpb, i + 1,
                 IF ~IsStrongBeat(frac) /\ IsLoud(ns[i].velocity)
                   THEN Append(out, [time |-> ns[i].start,
                                     score |-> Score(ns[i].velocity, frac)])
                   ELSE out)

\* analyze_syncopation(ns, bpb) for bpb # 0
SyncopationAlone(ns, bpb) == SyncopationScan(ns, bpb, 1, <<>>)

\* analyze_groove(ns, q) for q # 0
GrooveAlone(ns, q) ==
    [i \in 1..Len(ns) |->
        [time |-> ns[i].start, deviation |-> Deviation(ns[i].start, q)]]

(***************************************************************************)
(* The properties.                                                         *)
(***************************************************************************)
Max2(a, b) == IF a >= b THEN a ELSE b
Min2(a, b) == IF a <= b THEN a ELSE b

RECURSIVE SumCounts(_, _)
SumCounts(hist, keys) ==
    IF keys = {} THEN 0
    ELSE LET k == CHOOSE x \in keys : TRUE
         IN  hist[k] + SumCounts(hist, keys \ {k})

\* the elements of a finite set of integers in ascending order
RECURSIVE Ascending(_)
Ascending(S) ==
    IF S = {} THEN <<>>
    ELSE LET m == CHOOSE x \in S : \A y \in S : x <= y
         IN  <<m>> \o Ascending(S \ {m})

\* the k-th quantized inter-onset interval of the input, k in 1..N-1
QIOI(k) ==
    LET d == notes[k + 1].start - notes[k].start
        q == pattern_quantization
        fl == FloorDiv(d, q)
        up == 2 * Abs(d - fl * q) > Abs(q)
              \/ (2 * Abs(d - fl * q) = Abs(q) /\ fl % 2 # 0)
    IN  (IF up THEN fl + 1 ELSE fl) * q

\* the 4-gram of quantized inter-onset intervals starting at index k
Gram(k) == <<QIOI(k), QIOI(k + 1), QIOI(k + 2), QIOI(k + 3)>>

\* C1: find_rhythm_patterns, for N notes sorted by start and quantization > 0,
\* returns a histogram whose counts sum to max(0, N-4); it is empty when N < 5
\* and every key present has count >= 1.
C1_HistogramTotal ==
    (ppc = "done" /\ pattern_quantization > 0) =>
        /\ p_outcome = "ok"
        /\ SumCounts(patterns, DOMAIN patterns) = Max2(0, Len(notes) - 4)
        /\ (Len(notes) < 5 => DOMAIN patterns = {})
        /\ \A key \in DOMAIN patterns : patterns[key] >= 1

\* six notes, two overlapping 4-grams that are equal: one key with count 2
C1_Witness ==
    /\ ppc = "done" /\ p_outcome = "ok" /\ pattern_quantization > 0
    /\ Len(notes) = 6
    /\ \E key \in DOMAIN patterns : patterns[key] = 2

\* C9: the append-then-drop-oldest buffer of find_rhythm_patterns is the
\* index-based iteration over 4-grams: the returned histogram maps each
\* 4-tuple p to the number of k in 1..N-4 with Gram(k) = p and has no other
\* key; the buffer never holds more than 4 elements, and after each iteration
\* it holds the min(consumed, 3) most recent quantized IOIs in order.
C9_SlidingWindow ==
    pattern_quantization # 0 =>
        /\ Len(current_pattern) <= 4
        /\ (ppc \in {"loop", "done"}) =>
              LET consumed == p_i - 2
                  held == Min2(consumed, 3)
              IN  /\ Len(current_pattern) = held
                  /\ \A j \in 1..held :
                        current_pattern[j] = QIOI(consumed - held + j)
        /\ (ppc = "done") =>
              /\ DOMAIN patterns = {Gram(k) : k \in 1..(Len(notes) - 4)}
              /\ \A p \in DOMAIN patterns :
                    patterns[p] =
                        Cardinality({k \in 1..(Len(notes) - 4) : Gram(k) = p})

\* the fifth IOI was appended to a buffer of three after a first 4-gram was
\* recorded: the buffer holds 4 elements and the second 4-gram differs
C9_Witness ==
    /\ ppc = "appended" /\ pattern_quantization > 0
    /\ Len(current_pattern) = 4
    /\ DOMAIN patterns # {}
    /\ current_pattern \notin DOMAIN patterns

\* C2: analyze_note_density, for a non-empty note list and window > 0, returns
\* as times exactly the k*window (k = 0, 1, ...) below max(note.end), ascending,
\* and as counts, of the same length, the number of notes with
\* start <= times[k] <= end.
C2_DensitySamples ==
    (dpc = "done" /\ notes # <<>> /\ window_size > 0) =>
        /\ d_outcome = "ok"
        /\ Len(densities) = Len(time_points)
        /\ \A k \in 1..Len(time_points) :
              /\ time_points[k] = (k - 1) * window_size
              /\ \E i \in 1..Len(notes) : time_points[k] < notes[i].end
              /\ densities[k] =
                    Cardinality({i \in 1..Len(notes) :
                                    /\ notes[i].start <= time_points[k]
                                    /\ time_points[k] <= notes[i].end})
        /\ \A i \in 1..Len(notes) :
              Len(time_points) * window_size >= notes[i].end

\* one note spanning [0,2] with window 1: times [0,1], counts [1,1]
C2_Witness ==
    /\ dpc = "done" /\ d_outcome = "ok"
    /\ Len(notes) = 1 /\ notes[1].start = 0 /\ notes[1].end = 2
    /\ window_size = 1
    /\ time_points = <<0, 1>>
    /\ densities = <<1, 1>>

\* (start mod beats_per_bar) mod 1, for beats_per_bar > 0, in ticks
ClaimFractional(i) == (notes[i].start % beats_per_bar) % OneBeat

\* the notes with fractional >= 0.1 and velocity / 127 > 0.5, in input order
ClaimEmitted ==
    Ascending({i \in 1..Len(notes) :
                  /\ 10 * ClaimFractional(i) >= OneBeat
                  /\ 2 * notes[i].velocity > 127})

C10_HigherWhenLater ==
    (spc = "done" /\ beats_per_bar > 0) =>
        /\ Len(syncopation_scores) = Len(ClaimEmitted)
        /\ \A a, b \in 1..Len(syncopation_scores) :
              (/\ notes[ClaimEmitted[a]].velocity = notes[ClaimEmitted[b]].velocity
               /\ ClaimFractional(ClaimEmitted[a]) > ClaimFractional(ClaimEmitted[b]))
              => syncopation_scores[a].score > syncopation_scores[b].score

\* C10, amended: of two emitted notes with the same velocity, the one further
\* past the prior beat (larger fractional) receives the lower score.
C10_LowerWhenLater ==
    (spc = "done" /\ beats_per_bar > 0) =>
        /\ Len(syncopation_scores) = Len(ClaimEmitted)
        /\ \A a, b \in 1..Len(syncopation_scores) :
              (/\ notes[ClaimEmitted[a]].velocity = notes[ClaimEmitted[b]].velocity
               /\ ClaimFractional(ClaimEmitted[a]) > ClaimFractional(ClaimEmitted[b]))
              => syncopation_scores[a].score < syncopation_scores[b].score

\* two notes of equal velocity, both emitted, at different fractionals
C10_Witness ==
    /\ spc = "done" /\ s_outcome = "ok" /\ beats_per_bar > 0
    /\ Len(notes) = 2 /\ Len(syncopation_scores) = 2
    /\ notes[1].velocity = notes[2].velocity
    /\ ClaimFractional(1) # ClaimFractional(2)
    /\ syncopation_scores[1].score # syncopation_scores[2].score

\* C4: analyze_groove, for quantization > 0, emits exactly one record per note
\* in input order with time = note.start, whose deviation is the distance from
\* start to a grid line (a multiple of quantization) and satisfies
\* |deviation| <= quantization / 2.
C4_GrooveBound ==
    (gpc = "done" /\ groove_quantization > 0) =>
        /\ g_outcome = "ok"
        /\ Len(groove_deviations) = Len(notes)
        /\ \A i \in 1..Len(notes) :
              /\ groove_deviations[i].time = notes[i].start
              /\ (notes[i].start - groove_deviations[i].deviation)
                    % groove_quantization = 0
              /\ 2 * Abs(groove_deviations[i].deviation) <= groove_quantization

\* two notes, one of them off the grid
C4_Witness ==
    /\ gpc = "done" /\ g_outcome = "ok" /\ groove_quantization > 0
    /\ Len(notes) = 2 /\ Len(groove_deviations) = 2
    /\ groove_deviations[1].deviation = 0
    /\ groove_deviations[2].deviation > 0
    /\ 2 * groove_deviations[2].deviation < groove_quantization

\* C5 as stated: every deviation lies in (-quantization/2, +quantization/2]:
\* a tie is always resolved to the lower grid line.
C5_TieToLower ==
    (gpc = "done" /\ groove_quantization > 0) =>
        \A i \in 1..Len(groove_deviations) :
            /\ -groove_quantization < 2 * groove_deviations[i].deviation
            /\ 2 * groove_deviations[i].deviation <= groove_quantization

\* C5, amended: every deviation lies in [-quantization/2, +quantization/2]; a
\* note exactly halfway between two grid lines goes to the lower one
\* (deviation +quantization/2) when that line is an even multiple of
\* quantization and to the upper one (deviation -quantization/2) when it is
\* odd; no other note has a deviation of magnitude quantization/2.
C5_TieToEven ==
    (gpc = "done" /\ groove_quantization > 0) =>
        /\ Len(groove_deviations) = Len(notes)
        /\ \A i \in 1..Len(groove_deviations) :
              LET q == groove_quantization
                  lower == notes[i].start \div q
                  halfway == 2 * (notes[i].start % q) = q
                  dev == groove_deviations[i].deviation
              IN  /\ halfway /\ lower % 2 = 0 => 2 * dev = q
                  /\ halfway /\ lower % 2 = 1 => 2 * dev = -q
                  /\ ~halfway => (-q < 2 * dev /\ 2 * dev < q)

\* two notes halfway between grid lines, one resolved down and one up
C5_Witness ==
    /\ gpc = "done" /\ g_outcome = "ok" /\ groove_quantization > 0
    /\ Len(groove_deviations) = 2
    /\ 2 * groove_deviations[1].deviation = groove_quantization
    /\ 2 * groove_deviations[2].deviation = -groove_quantization

\* C6: analyze_note_density with window <= 0, and find_rhythm_patterns and
\* analyze_groove with quantization <= 0, each end in InvalidParameter (stated
\* for the non-empty note lists, which the claim includes).
C6_DegenerateRejected ==
    notes # <<>> =>
    /\ (dpc = "done" /\ window_size <= 0) => d_outcome = "InvalidParameter"
    /\ (ppc = "done" /\ pattern_quantization <= 0) => p_outcome = "InvalidParameter"
    /\ (gpc = "done" /\ groove_quantization <= 0) => g_outcome = "InvalidParameter"

\* C7: on an empty note list, with valid parameters, no analysis fails:
\* analyze_note_density returns two empty sequences, find_rhythm_patterns an
\* empty mapping, analyze_syncopation and analyze_groove empty lists.
C7_EmptyInput ==
    notes = <<>> =>
        /\ window_size > 0 =>
              /\ d_outcome \in {"none", "ok"}
              /\ dpc = "done" =>
                    d_outcome = "ok" /\ time_points = <<>> /\ densities = <<>>
        /\ pattern_quantization > 0 =>
              /\ p_outcome \in {"none", "ok"}
              /\ ppc = "done" => p_outcome = "ok" /\ DOMAIN patterns = {}
        /\ beats_per_bar > 0 =>
              /\ s_outcome \in {"none", "ok"}
              /\ spc = "done" => s_outcome = "ok" /\ syncopation_scores = <<>>
        /\ groove_quantization > 0 =>
              /\ g_outcome \in {"none", "ok"}
              /\ gpc = "done" => g_outcome = "ok" /\ groove_deviations = <<>>

\* the four calls have returned on the empty list
C7_Witness ==
    /\ notes = <<>>
    /\ window_size > 0 /\ pattern_quantization > 0
    /\ beats_per_bar > 0 /\ groove_quantization > 0
    /\ dpc = "done" /\ ppc = "done" /\ spc = "done" /\ gpc = "done"

\* C8: with the loop steps of the four analyses interleaved over the same
\* note list, no step modifies the note list, a step changes the working
\* state of one analysis only, and each analysis returns what it returns when
\* run alone.
C8_Independent ==
    [][/\ notes' = notes
       /\ densityVars' # densityVars =>
             UNCHANGED <<patternVars, syncopationVars, grooveVars>>
       /\ patternVars' # patternVars =>
             UNCHANGED <<densityVars, syncopationVars, grooveVars>>
       /\ syncopationVars' # syncopationVars =>
             UNCHANGED <<densityVars, patternVars, grooveVars>>
       /\ grooveVars' # grooveVars =>
             UNCHANGED <<densityVars, patternVars, syncopationVars>>
       /\ dpc' = "done" =>
             /\ d_outcome' = "ok"
             /\ <<time_points', densities'>> = DensityAlone(notes, window_size)
       /\ ppc' = "done" =>
             /\ p_outcome' = "ok"
             /\ patterns' = PatternsAlone(notes, pattern_quantization)
       /\ spc' = "done" =>
             /\ s_outcome' = "ok"
             /\ syncopation_scores' = SyncopationAlone(notes, beats_per_bar)
       /\ gpc' = "done" =>
             /\ g_outcome' = "ok"
             /\ groove_deviations' = GrooveAlone(notes, groove_quantization)
      ]_vars

\* the four analyses are in their loops at once, each with part of its output
C8_Witness ==
    /\ Len(notes) = 5
    /\ dpc = "loop" /\ Len(densities) > 0 /\ Len(densities) < Len(time_points)
    /\ ppc = "appended" /\ Len(current_pattern) = 3
    /\ spc = "loop" /\ s_i > 1 /\ s_i <= Len(notes) /\ syncopation_scores # <<>>
    /\ gpc = "loop" /\ g_i > 1 /\ g_i <= Len(notes)

====
